---- MODULE Spec2Model ----
(***************************************************************************)
(* Model of lib/src/main/cpp/manifold_operators.cpp: the three numeric     *)
(* operators (calculate_resonance, calculate_coherence, calculate_delta_i) *)
(* and the three JNI entry points that marshal Java float arrays to them.  *)
(*                                                                         *)
(* The C++ type float is IEEE-754 binary32.  A float is modelled by what   *)
(* it is: a record [k, s, m, e] with k the class ("fin", "inf", "nan"),    *)
(* s the sign bit and, for a finite value, the integer significand m and   *)
(* exponent e, of value (-1)^s * m * 2^e.  Every arithmetic operation      *)
(* rounds to nearest, ties to even, and overflows to infinity, underflows  *)
(* gradually and produces NaN as the hardware does.  Expressions are       *)
(* evaluated without contraction (no fused multiply-add).                  *)
(***************************************************************************)
EXTENDS Integers, Sequences, FiniteSets, TLC

(***************************************************************************)
(* binary32                                                                *)
(***************************************************************************)
\* significand width of float, in bits
Precision == 24
\* exponent of the least significant bit of the smallest subnormal
EMin == -149
\* exponent of the least significant bit of the largest finite float
EMax == 104

Pow2Tab == [i \in 0..30 |-> 2^i]
Pow2(n) == Pow2Tab[n]

TwoP == Pow2(Precision)
HalfP == Pow2(Precision - 1)

Max(x, y) == IF x >= y THEN x ELSE y
Xor(s, t) == IF s = t THEN 0 ELSE 1

\* number of bits of n, 0 <= n < 2^31
RECURSIVE BitLen(_)
BitLen(n) == IF n = 0 THEN 0
             ELSE IF n >= 65536 THEN 16 + BitLen(n \div 65536)
             ELSE IF n >= 256 THEN 8 + BitLen(n \div 256)
             ELSE IF n >= 16 THEN 4 + BitLen(n \div 16)
             ELSE 1 + BitLen(n \div 2)

Fin(s, m, e) == [k |-> "fin", s |-> s, m |-> m, e |-> e]
Inf(s) == [k |-> "inf", s |-> s, m |-> 0, e |-> 0]
NaN == [k |-> "nan", s |-> 0, m |-> 0, e |-> 0]
FZero(s) == Fin(s, 0, EMin)

IsNaN(x) == x.k = "nan"
IsInf(x) == x.k = "inf"
IsFin(x) == x.k = "fin"
IsZero(x) == x.k = "fin" /\ x.m = 0

\* The float nearest to (-1)^s * (M + f) * 2^e, ties to even, where M is a natural
\* number and 0 <= f < 1 with f > 0 iff sticky.
Round(s, M, e, sticky) ==
    IF M = 0 THEN FZero(s)
    ELSE LET nb == BitLen(M)
             e0 == e + nb - Precision
             er == Max(e0, EMin)
             sh == er - e
         IN  IF sh <= 0 THEN Fin(s, M * Pow2(-sh), er)
             ELSE IF sh > nb THEN FZero(s)
             ELSE LET q    == M \div Pow2(sh)
                      r    == M % Pow2(sh)
                      half == Pow2(sh - 1)
                      up   == r > half \/ (r = half /\ (sticky \/ q % 2 = 1))
                      q1   == IF up THEN q + 1 ELSE q
                      m2   == IF q1 = TwoP THEN HalfP ELSE q1
                      e2   == IF q1 = TwoP THEN er + 1 ELSE er
                  IN  IF e2 > EMax THEN Inf(s) ELSE Fin(s, m2, e2)

\* significand and exponent of a finite non-zero float with the significand
\* shifted up to Precision bits (the exponent of a subnormal goes below EMin)
NormM(x) == IF x.m >= HalfP THEN x.m ELSE x.m * Pow2(Precision - BitLen(x.m))
NormE(x) == IF x.m >= HalfP THEN x.e ELSE x.e - (Precision - BitLen(x.m))

\* integer conversion to float (size_t -> float), n < 2^30
FromInt(n) == Round(0, n, 0, FALSE)

FNeg(x) == IF IsNaN(x) THEN NaN ELSE [x EXCEPT !.s = 1 - x.s]
FAbs(x) == IF IsNaN(x) THEN NaN ELSE [x EXCEPT !.s = 0]

\* x * y
FMul(x, y) ==
    IF IsNaN(x) \/ IsNaN(y) THEN NaN
    ELSE IF (IsInf(x) /\ IsZero(y)) \/ (IsZero(x) /\ IsInf(y)) THEN NaN
    ELSE IF IsInf(x) \/ IsInf(y) THEN Inf(Xor(x.s, y.s))
    ELSE IF IsZero(x) \/ IsZero(y) THEN FZero(Xor(x.s, y.s))
    ELSE LET a   == NormM(x)
             b   == NormM(y)
             ah  == a \div 4096
             al  == a % 4096
             bh  == b \div 4096
             bl  == b % 4096
             mid == ah * bl + al * bh
             low == (mid % 4096) * 4096 + al * bl
             hi  == ah * bh + (mid \div 4096) + (low \div TwoP)
             lo  == low % TwoP
             \* a * b = hi * 2^24 + lo
         IN  Round(Xor(x.s, y.s), hi * 4 + (lo \div Pow2(Precision - 2)),
                   NormE(x) + NormE(y) + Precision - 2,
                   lo % Pow2(Precision - 2) /= 0)

\* x + y
FAdd(x, y) ==
    IF IsNaN(x) \/ IsNaN(y) THEN NaN
    ELSE IF IsInf(x) /\ IsInf(y) THEN (IF x.s = y.s THEN x ELSE NaN)
    ELSE IF IsInf(x) THEN x
    ELSE IF IsInf(y) THEN y
    ELSE IF IsZero(x) /\ IsZero(y) THEN FZero(IF x.s = 1 /\ y.s = 1 THEN 1 ELSE 0)
    ELSE IF IsZero(x) THEN y
    ELSE IF IsZero(y) THEN x
    ELSE LET swap == (x.e < y.e) \/ (x.e = y.e /\ x.m < y.m)
             big  == IF swap THEN y ELSE x
             sml  == IF swap THEN x ELSE y
             d    == big.e - sml.e
             A    == big.m * 8
             B    == IF d <= 3 THEN sml.m * Pow2(3 - d)
                     ELSE IF d - 3 >= Precision THEN 0
                     ELSE sml.m \div Pow2(d - 3)
             st   == IF d <= 3 THEN FALSE
                     ELSE IF d - 3 >= Precision THEN TRUE
                     ELSE sml.m % Pow2(d - 3) /= 0
         IN  IF big.s = sml.s THEN Round(big.s, A + B, big.e - 3, st)
             ELSE IF A = B /\ ~st THEN FZero(0)
             ELSE Round(big.s, IF st THEN A - B - 1 ELSE A - B, big.e - 3, st)

FSub(x, y) == FAdd(x, FNeg(y))

\* quotient bits by long division: <<q, r>> after n more steps
RECURSIVE DivBits(_, _, _, _)
DivBits(q, r, d, n) ==
    IF n = 0 THEN <<q, r>>
    ELSE IF 2 * r >= d THEN DivBits(2 * q + 1, 2 * r - d, d, n - 1)
    ELSE DivBits(2 * q, 2 * r, d, n - 1)

\* x / y
FDiv(x, y) ==
    IF IsNaN(x) \/ IsNaN(y) THEN NaN
    ELSE IF (IsInf(x) /\ IsInf(y)) \/ (IsZero(x) /\ IsZero(y)) THEN NaN
    ELSE IF IsInf(x) \/ IsZero(y) THEN Inf(Xor(x.s, y.s))
    ELSE IF IsInf(y) \/ IsZero(x) THEN FZero(Xor(x.s, y.s))
    ELSE LET a  == NormM(x)
             b  == NormM(y)
             qr == DivBits(a \div b, a % b, b, Precision + 2)
         IN  Round(Xor(x.s, y.s), qr[1], NormE(x) - NormE(y) - (Precision + 2),
                   qr[2] /= 0)

\* square root of v * 4^n digit by digit: <<root, rem>>; v is consumed two bits at
\* a time from bit position 2*(k-1), then n pairs of zero bits follow
RECURSIVE SqrtBits(_, _, _, _, _)
SqrtBits(root, rem, v, k, n) ==
    IF k = 0 /\ n = 0 THEN <<root, rem>>
    ELSE LET pair == IF k > 0 THEN (v \div Pow2(2 * (k - 1))) % 4 ELSE 0
             rm   == 4 * rem + pair
             t    == 4 * root + 1
             k1   == IF k > 0 THEN k - 1 ELSE 0
             n1   == IF k > 0 THEN n ELSE n - 1
         IN  IF rm >= t THEN SqrtBits(2 * root + 1, rm - t, v, k1, n1)
             ELSE SqrtBits(2 * root, rm, v, k1, n1)

\* std::sqrt(x)
FSqrt(x) ==
    IF IsNaN(x) THEN NaN
    ELSE IF IsZero(x) THEN x
    ELSE IF x.s = 1 THEN NaN
    ELSE IF IsInf(x) THEN x
    ELSE LET odd == NormE(x) % 2 /= 0
             v   == IF odd THEN 2 * NormM(x) ELSE NormM(x)
             e   == IF odd THEN NormE(x) - 1 ELSE NormE(x)
             rr  == SqrtBits(0, 0, v, 13, 14)
         IN  Round(0, rr[1], (e \div 2) - 14, rr[2] /= 0)

\* x < y, x <= y, x == y as the C++ operators on float
FLt(x, y) ==
    IF IsNaN(x) \/ IsNaN(y) THEN FALSE
    ELSE IF IsZero(x) /\ IsZero(y) THEN FALSE
    ELSE IF x.s /= y.s THEN x.s = 1
    ELSE LET lt == IF IsInf(x) THEN FALSE
                   ELSE IF IsInf(y) THEN TRUE
                   ELSE x.e < y.e \/ (x.e = y.e /\ x.m < y.m)
             gt == IF IsInf(y) THEN FALSE
                   ELSE IF IsInf(x) THEN TRUE
                   ELSE y.e < x.e \/ (y.e = x.e /\ y.m < x.m)
         IN  IF x.s = 0 THEN lt ELSE gt
FEq(x, y) == ~IsNaN(x) /\ ~IsNaN(y) /\ ((IsZero(x) /\ IsZero(y)) \/ x = y)
FLe(x, y) == FLt(x, y) \/ FEq(x, y)

\* std::min(x, y): (y < x) ? y : x
FMin(x, y) == IF FLt(y, x) THEN y ELSE x

(***************************************************************************)
(* float literals of the source and the values inputs are drawn from       *)
(***************************************************************************)
\* 2^k as a float (k within the normal range)
P2(k) == Fin(0, HalfP, k - (Precision - 1))
\* 0.0f and 1.0f
Zero == FZero(0)
One == P2(0)
\* 1e-9f: the float nearest to 10^-9 is 9007199 * 2^-53 (bit pattern 0x3089705f)
Epsilon == Fin(0, 9007199, -53)

(***************************************************************************)
(* The operators                                                           *)
(***************************************************************************)
\* input_embedding.size() != manifold_centroid.size() || input_embedding.empty()
ResonanceGuardGreater(a, b) == Len(a) > Len(b) \/ Len(a) = 0
ResonanceGuard(a, b) == Len(a) /= Len(b) \/ Len(a) = 0

\* dot_product += input_embedding[i] * manifold_centroid[i]
DotStep(dot_product, x, y) == FAdd(dot_product, FMul(x, y))

\* norm_a += input_embedding[i] * input_embedding[i] (and norm_b likewise)
NormStepNoSquare(norm, x) == FAdd(norm, x)
NormStep(norm, x) == FAdd(norm, FMul(x, x))

\* dot_product / (std::sqrt(norm_a) * std::sqrt(norm_b) + 1e-9f)
ResonanceResultNormA(dot_product, norm_a, norm_b) ==
    FDiv(dot_product, FAdd(FMul(FSqrt(norm_a), FSqrt(norm_a)), Epsilon))
ResonanceResult(dot_product, norm_a, norm_b) ==
    FDiv(dot_product, FAdd(FMul(FSqrt(norm_a), FSqrt(norm_b)), Epsilon))

\* the for loop of calculate_resonance from index i (1-based) on:
\* <<dot_product, norm_a, norm_b>> when it ends
RECURSIVE ResonanceLoop(_, _, _, _, _, _)
ResonanceLoop(i, dot_product, norm_a, norm_b, a, b) ==
    IF i > Len(a) THEN <<dot_product, norm_a, norm_b>>
    ELSE ResonanceLoop(i + 1, DotStep(dot_product, a[i], b[i]),
                       NormStep(norm_a, a[i]), NormStep(norm_b, b[i]), a, b)

calculate_resonance(input_embedding, manifold_centroid) ==
    IF ResonanceGuard(input_embedding, manifold_centroid) THEN Zero
    ELSE LET acc == ResonanceLoop(1, Zero, Zero, Zero,
                                  input_embedding, manifold_centroid)
         IN  ResonanceResult(acc[1], acc[2], acc[3])

\* sum += std::abs(val)
CoherenceStepNoAbs(sum, val) == FAdd(sum, val)
CoherenceStep(sum, val) == FAdd(sum, FAbs(val))

\* score = sum / embedding.size(); return std::min(1.0f, score)
CoherenceResult(sum, size) == FMin(One, FDiv(sum, FromInt(size)))

RECURSIVE CoherenceLoop(_, _, _)
CoherenceLoop(i, sum, embedding) ==
    IF i > Len(embedding) THEN sum
    ELSE CoherenceLoop(i + 1, CoherenceStep(sum, embedding[i]), embedding)

calculate_coherence(embedding) ==
    IF Len(embedding) = 0 THEN Zero
    ELSE CoherenceResult(CoherenceLoop(1, Zero, embedding), Len(embedding))

\* sum_diff += std::abs(history_resonance[i] - history_resonance[i-1])
DeltaStepNoAbs(sum_diff, cur, prev) == FAdd(sum_diff, FSub(cur, prev))
DeltaStep(sum_diff, cur, prev) == FAdd(sum_diff, FAbs(FSub(cur, prev)))

\* 1.0f - (sum_diff / (history_resonance.size() - 1))
DeltaResultOverSize(sum_diff, size) == FSub(One, FDiv(sum_diff, FromInt(size)))
DeltaResult(sum_diff, size) == FSub(One, FDiv(sum_diff, FromInt(size - 1)))

\* the for loop of calculate_delta_i from C++ index i - 1 on (i is 1-based)
RECURSIVE DeltaLoop(_, _, _)
DeltaLoop(i, sum_diff, history_resonance) ==
    IF i > Len(history_resonance) THEN sum_diff
    ELSE DeltaLoop(i + 1,
                   DeltaStep(sum_diff, history_resonance[i], history_resonance[i - 1]),
                   history_resonance)

calculate_delta_i(history_resonance) ==
    IF Len(history_resonance) < 2 THEN One
    ELSE DeltaResult(DeltaLoop(2, Zero, history_resonance), Len(history_resonance))


(***************************************************************************)
(* Bounds and the sets inputs are drawn from                               *)
(***************************************************************************)
\* longest vector given to calculate_coherence and calculate_delta_i
MaxLen == 3
\* longest vector given to calculate_resonance
MaxPairLen == 2
\* longest Java array given to an entry point
MaxArrayLen == 2
\* number of threads calling the operators concurrently
NThreads == 2

\* all sequences over S of length at most n
Vectors(S, n) == UNION {[1..k -> S] : k \in 0..n}

\* components of the vectors given to calculate_resonance: zero, +1, -1, a value
\* whose square underflows to 0, a large value whose square is finite, and a
\* value whose square overflows
ResonanceValues == {Zero, One, FNeg(One), P2(-76), P2(50), P2(70)}
\* components of the vectors given to calculate_coherence and calculate_delta_i
UnaryValues == {Zero, One, FNeg(One), P2(1), P2(-1), P2(-30), P2(70), NaN, Inf(0)}
\* elements of the Java arrays, and what a read past the end of a native buffer
\* may find there
ArrayValues == {Zero, One, FNeg(One)}
JunkValues == {Zero, One}

EntryPoints == {"operator7Resonance", "operator11Coherence", "getDeltaI"}
Threads == 1..NThreads

\* the caller-owned vectors the concurrent calls read
SharedVectors == << <<One, FNeg(One)>>, <<P2(-1), P2(1)>>, <<>> >>

VARIABLES
    \* a single call of an operator: which one, its arguments, whether it has
    \* returned, and what it returned
    op, a, b, pc, result,
    \* concurrent calls: the caller-owned vectors, and per thread the position,
    \* the call (operator and the vectors it was given) and the value returned;
    \* idx is the loop index i of each thread's call and locals holds the float
    \* accumulators of the running calls
    vec, tpc, tcall, tres, idx, locals,
    \* a call of a JNI entry point: the entry point, the Java arrays, the
    \* position, GetArrayLength's result, the two std::vector copies, the score,
    \* the native buffers obtained, those still held, the releases per buffer,
    \* the number of ReleaseFloatArrayElements calls made, and whether an element
    \* past the end of a buffer was read.  (getDeltaI's array j_history is held in
    \* j_embedding, its vector history in input_vec.)
    entry, j_embedding, j_centroid, jpc, len, input_vec, centroid_vec, score,
    acquired, held, released, nrel, oob

pureVars == <<op, a, b, pc, result>>
concVars == <<vec, tpc, tcall, tres, idx, locals>>
jniVars == <<entry, j_embedding, j_centroid, jpc, len, input_vec, centroid_vec,
             score, acquired, held, released, nrel, oob>>
vars == <<pureVars, concVars, jniVars>>

NoCall == [op |-> "none", x |-> 0, y |-> 0]
NoLocals == [dot_product |-> Zero, norm_a |-> Zero, norm_b |-> Zero,
             sum |-> Zero, sum_diff |-> Zero]
Buffers == {"flt_emb", "flt_cen", "flt_hist"}

PureIdle == op = "none" /\ a = <<>> /\ b = <<>> /\ pc = "done" /\ result = Zero
ConcIdle ==
    /\ vec = SharedVectors
    /\ tpc = [t \in Threads |-> "idle"]
    /\ tcall = [t \in Threads |-> NoCall]
    /\ tres = [t \in Threads |-> Zero]
    /\ idx = [t \in Threads |-> 0]
    /\ locals = [t \in Threads |-> NoLocals]
JniIdle ==
    /\ entry = "none" /\ j_embedding = <<>> /\ j_centroid = <<>>
    /\ jpc = "returned" /\ len = 0 /\ input_vec = <<>> /\ centroid_vec = <<>>
    /\ score = Zero /\ acquired = {} /\ held = {}
    /\ released = [h \in Buffers |-> 0] /\ nrel = 0 /\ oob = FALSE

(***************************************************************************)
(* Spec: one call of one operator on inputs drawn from the bounded sets    *)
(***************************************************************************)
Init ==
    /\ \/ /\ op = "calculate_resonance"
          /\ a \in Vectors(ResonanceValues, MaxPairLen)
          /\ b \in Vectors(ResonanceValues, MaxPairLen)
       \/ /\ op \in {"calculate_coherence", "calculate_delta_i"}
          /\ a \in Vectors(UnaryValues, MaxLen)
          /\ b = <<>>
    /\ pc = "call"
    /\ result = Zero
    /\ ConcIdle
    /\ JniIdle

Resonance ==
    /\ pc = "call" /\ op = "calculate_resonance"
    /\ result' = calculate_resonance(a, b)
    /\ pc' = "done"
    /\ UNCHANGED <<op, a, b, concVars, jniVars>>

Coherence ==
    /\ pc = "call" /\ op = "calculate_coherence"
    /\ result' = calculate_coherence(a)
    /\ pc' = "done"
    /\ UNCHANGED <<op, a, b, concVars, jniVars>>

DeltaI ==
    /\ pc = "call" /\ op = "calculate_delta_i"
    /\ result' = calculate_delta_i(a)
    /\ pc' = "done"
    /\ UNCHANGED <<op, a, b, concVars, jniVars>>

Next == Resonance \/ Coherence \/ DeltaI

Spec == Init /\ [][Next]_vars

(***************************************************************************)
(* SpecConcurrent: the operators called from several threads at once, one  *)
(* loop iteration at a time, on caller-owned vectors they share            *)
(***************************************************************************)
\* Where a call keeps dot_product, norm_a, norm_b, sum and sum_diff: they are
\* automatic variables, one set per call (here: per calling thread).
SlotStatic(t) == 1
Slot(t) == t

\* the function's early return: size mismatch or empty, empty, fewer than 2
EarlyReturn(c) ==
    CASE c.op = "calculate_resonance" -> ResonanceGuard(vec[c.x], vec[c.y])
      [] c.op = "calculate_coherence" -> Len(vec[c.x]) = 0
      [] c.op = "calculate_delta_i" -> Len(vec[c.x]) < 2
DefaultValue(c) == IF c.op = "calculate_delta_i" THEN One ELSE Zero
\* the first index of the loop (1-based; calculate_delta_i starts at C++ index 1)
FirstIndex(c) == IF c.op = "calculate_delta_i" THEN 2 ELSE 1

\* thread t calls operator o on vectors x (and y): the guard, then either the
\* default value is returned or the accumulators are set to 0.0f
Enter(t, o, x, y) ==
    /\ tpc[t] = "idle"
    /\ LET c == [op |-> o, x |-> x, y |-> y]
       IN  /\ tcall' = [tcall EXCEPT ![t] = c]
           /\ IF EarlyReturn(c)
              THEN /\ tres' = [tres EXCEPT ![t] = DefaultValue(c)]
                   /\ tpc' = [tpc EXCEPT ![t] = "ret"]
                   /\ UNCHANGED <<idx, locals>>
              ELSE /\ locals' = [locals EXCEPT ![Slot(t)] = NoLocals]
                   /\ idx' = [idx EXCEPT ![t] = FirstIndex(c)]
                   /\ tpc' = [tpc EXCEPT ![t] = "loop"]
                   /\ UNCHANGED tres
    /\ UNCHANGED <<vec, pureVars, jniVars>>

\* one iteration of the loop of thread t's call
Iterate(t) ==
    /\ tpc[t] = "loop"
    /\ LET c == tcall[t]
           l == locals[Slot(t)]
           v == vec[c.x]
           i == idx[t]
       IN  /\ i <= Len(v)
           /\ locals' = [locals EXCEPT ![Slot(t)] =
                CASE c.op = "calculate_resonance" ->
                       [l EXCEPT !.dot_product = DotStep(l.dot_product, v[i], vec[c.y][i]),
                                 !.norm_a = NormStep(l.norm_a, v[i]),
                                 !.norm_b = NormStep(l.norm_b, vec[c.y][i])]
                  [] c.op = "calculate_coherence" ->
                       [l EXCEPT !.sum = CoherenceStep(l.sum, v[i])]
                  [] c.op = "calculate_delta_i" ->
                       [l EXCEPT !.sum_diff = DeltaStep(l.sum_diff, v[i], v[i - 1])]]
           /\ idx' = [idx EXCEPT ![t] = i + 1]
    /\ UNCHANGED <<vec, tpc, tcall, tres, pureVars, jniVars>>

\* the loop of thread t's call has ended: the return expression; the automatic
\* variables cease to exist
Finish(t) ==
    /\ tpc[t] = "loop"
    /\ LET c == tcall[t]
           l == locals[Slot(t)]
           v == vec[c.x]
       IN  /\ idx[t] > Len(v)
           /\ tres' = [tres EXCEPT ![t] =
                CASE c.op = "calculate_resonance" ->
                       ResonanceResult(l.dot_product, l.norm_a, l.norm_b)
                  [] c.op = "calculate_coherence" -> CoherenceResult(l.sum, Len(v))
                  [] c.op = "calculate_delta_i" -> DeltaResult(l.sum_diff, Len(v))]
    /\ tpc' = [tpc EXCEPT ![t] = "ret"]
    /\ locals' = [locals EXCEPT ![Slot(t)] = NoLocals]
    /\ idx' = [idx EXCEPT ![t] = 0]
    /\ UNCHANGED <<vec, tcall, pureVars, jniVars>>

\* the caller of thread t has taken the value; the thread may call again
Leave(t) ==
    /\ tpc[t] = "ret"
    /\ tpc' = [tpc EXCEPT ![t] = "idle"]
    /\ tcall' = [tcall EXCEPT ![t] = NoCall]
    /\ tres' = [tres EXCEPT ![t] = Zero]
    /\ UNCHANGED <<vec, idx, locals, pureVars, jniVars>>

InitConcurrent == PureIdle /\ ConcIdle /\ JniIdle

NextConcurrent ==
    \E t \in Threads :
        \/ \E x \in DOMAIN vec, y \in DOMAIN vec : Enter(t, "calculate_resonance", x, y)
        \/ \E x \in DOMAIN vec : Enter(t, "calculate_coherence", x, 0)
        \/ \E x \in DOMAIN vec : Enter(t, "calculate_delta_i", x, 0)
        \/ Iterate(t)
        \/ Finish(t)
        \/ Leave(t)

SpecConcurrent == InitConcurrent /\ [][NextConcurrent]_vars

\* what the call c returns when it runs alone on the vectors as the caller made them
Alone(c) ==
    CASE c.op = "calculate_resonance" ->
           calculate_resonance(SharedVectors[c.x], SharedVectors[c.y])
      [] c.op = "calculate_coherence" -> calculate_coherence(SharedVectors[c.x])
      [] c.op = "calculate_delta_i" -> calculate_delta_i(SharedVectors[c.x])

\* C9: the operators keep no shared state: however the calls of the threads
\* interleave, each call returns the value it returns when run alone on the
\* same inputs, and the input vectors are never written.
C9_NoInterference ==
    /\ vec = SharedVectors
    /\ \A t \in Threads : tpc[t] = "ret" => tres[t] = Alone(tcall[t])
\* a resonance call has returned its value although another thread's call on
\* other vectors began, and is still running, while it ran
C9_Witness ==
    /\ tpc[1] = "ret" /\ tcall[1] = [op |-> "calculate_resonance", x |-> 1, y |-> 2]
    /\ tpc[2] = "loop" /\ tcall[2].op = "calculate_delta_i" /\ idx[2] = 3
    /\ ~IsZero(tres[1])

(***************************************************************************)
(* SpecJni: one call of a JNI entry point, one statement at a time         *)
(***************************************************************************)
\* the pointer variable each GetFloatArrayElements call of an entry point fills
FirstBuffer(e) == IF e = "getDeltaI" THEN "flt_hist" ELSE "flt_emb"
\* the buffers an entry point hands to ReleaseFloatArrayElements, in order
ReleaseTargetsLeak(e) == <<FirstBuffer(e)>>
ReleaseTargets(e) ==
    IF e = "operator7Resonance" THEN <<"flt_emb", "flt_cen">> ELSE <<FirstBuffer(e)>>

InitJni ==
    /\ PureIdle /\ ConcIdle
    /\ entry \in EntryPoints
    /\ j_embedding \in Vectors(ArrayValues, MaxArrayLen)
    /\ j_centroid \in IF entry = "operator7Resonance"
                      THEN Vectors(ArrayValues, MaxArrayLen) ELSE {<<>>}
    /\ jpc = "get_first"
    /\ len = 0 /\ input_vec = <<>> /\ centroid_vec = <<>> /\ score = Zero
    /\ acquired = {} /\ held = {} /\ released = [h \in Buffers |-> 0]
    /\ nrel = 0 /\ oob = FALSE

\* flt_emb = env->GetFloatArrayElements(j_embedding, 0) (flt_hist in getDeltaI)
GetFirstElements ==
    /\ jpc = "get_first"
    /\ acquired' = acquired \cup {FirstBuffer(entry)}
    /\ held' = held \cup {FirstBuffer(entry)}
    /\ jpc' = IF entry = "operator7Resonance" THEN "get_centroid" ELSE "length"
    /\ UNCHANGED <<entry, j_embedding, j_centroid, len, input_vec, centroid_vec,
                   score, released, nrel, oob, pureVars, concVars>>

\* flt_cen = env->GetFloatArrayElements(j_centroid, 0)
GetCentroidElements ==
    /\ jpc = "get_centroid"
    /\ acquired' = acquired \cup {"flt_cen"}
    /\ held' = held \cup {"flt_cen"}
    /\ jpc' = "length"
    /\ UNCHANGED <<entry, j_embedding, j_centroid, len, input_vec, centroid_vec,
                   score, released, nrel, oob, pureVars, concVars>>

\* len = env->GetArrayLength(j_embedding): the length of the first array only
GetArrayLength ==
    /\ jpc = "length"
    /\ len' = Len(j_embedding)
    /\ jpc' = "copy_first"
    /\ UNCHANGED <<entry, j_embedding, j_centroid, input_vec, centroid_vec, score,
                   acquired, held, released, nrel, oob, pureVars, concVars>>

\* std::vector<float> input_vec(flt_emb, flt_emb + len)
CopyFirst ==
    /\ jpc = "copy_first"
    /\ input_vec' = SubSeq(j_embedding, 1, len)
    /\ jpc' = IF entry = "operator7Resonance" THEN "copy_centroid" ELSE "call"
    /\ UNCHANGED <<entry, j_embedding, j_centroid, len, centroid_vec, score,
                   acquired, held, released, nrel, oob, pureVars, concVars>>

\* std::vector<float> centroid_vec(flt_cen, flt_cen + len), with len elements of
\* the centroid's buffer within it
CopyCentroidInBounds ==
    /\ jpc = "copy_centroid"
    /\ len <= Len(j_centroid)
    /\ centroid_vec' = SubSeq(j_centroid, 1, len)
    /\ jpc' = "call"
    /\ UNCHANGED <<entry, j_embedding, j_centroid, len, input_vec, score,
                   acquired, held, released, nrel, oob, pureVars, concVars>>

\* the same statement when the centroid's buffer has fewer than len elements:
\* the read past its end is undefined behaviour; it finds whatever lies behind
\* the buffer
CopyCentroidPastEnd ==
    /\ jpc = "copy_centroid"
    /\ len > Len(j_centroid)
    /\ \E junk \in [1..(len - Len(j_centroid)) -> JunkValues] :
           centroid_vec' = j_centroid \o junk
    /\ oob' = TRUE
    /\ jpc' = "call"
    /\ UNCHANGED <<entry, j_embedding, j_centroid, len, input_vec, score,
                   acquired, held, released, nrel, pureVars, concVars>>

\* ... or the read faults and the process ends
CopyCentroidFault ==
    /\ jpc = "copy_centroid"
    /\ len > Len(j_centroid)
    /\ oob' = TRUE
    /\ jpc' = "crashed"
    /\ UNCHANGED <<entry, j_embedding, j_centroid, len, input_vec, centroid_vec,
                   score, acquired, held, released, nrel, pureVars, concVars>>

\* the call of the operator on the copies
CallOperator ==
    /\ jpc = "call"
    /\ score' = CASE entry = "operator7Resonance" ->
                       calculate_resonance(input_vec, centroid_vec)
                  [] entry = "operator11Coherence" -> calculate_coherence(input_vec)
                  [] entry = "getDeltaI" -> calculate_delta_i(input_vec)
    /\ jpc' = "release"
    /\ UNCHANGED <<entry, j_embedding, j_centroid, len, input_vec, centroid_vec,
                   acquired, held, released, nrel, oob, pureVars, concVars>>

\* env->ReleaseFloatArrayElements(array, buffer, 0), the next one of the entry point
ReleaseElements ==
    /\ jpc = "release"
    /\ nrel < Len(ReleaseTargets(entry))
    /\ LET buf == ReleaseTargets(entry)[nrel + 1]
       IN  /\ held' = held \ {buf}
           /\ released' = [released EXCEPT ![buf] = @ + 1]
    /\ nrel' = nrel + 1
    /\ UNCHANGED <<entry, j_embedding, j_centroid, jpc, len, input_vec,
                   centroid_vec, score, acquired, oob, pureVars, concVars>>

\* return of the score; the vectors are destroyed
Return ==
    /\ jpc = "release"
    /\ nrel = Len(ReleaseTargets(entry))
    /\ jpc' = "returned"
    /\ input_vec' = <<>>
    /\ centroid_vec' = <<>>
    /\ UNCHANGED <<entry, j_embedding, j_centroid, len, score, acquired, held,
                   released, nrel, oob, pureVars, concVars>>

NextJni ==
    \/ GetFirstElements
    \/ GetCentroidElements
    \/ GetArrayLength
    \/ CopyFirst
    \/ CopyCentroidInBounds
    \/ CopyCentroidPastEnd
    \/ CopyCentroidFault
    \/ CallOperator
    \/ ReleaseElements
    \/ Return

SpecJni == InitJni /\ [][NextJni]_vars

\* C1: a call of operator7Resonance with arrays of different lengths degrades to
\* the default value 0.0 and does not crash: it reads no element at or beyond
\* the length of the array it reads from.
C1_MismatchDegrades ==
    (entry = "operator7Resonance" /\ Len(j_embedding) /= Len(j_centroid)) =>
        /\ ~oob
        /\ jpc /= "crashed"
        /\ jpc = "returned" => score = Zero

\* C2: in each entry point every buffer obtained with GetFloatArrayElements is
\* released exactly once before the entry point returns, whatever the operator
\* returned; no buffer is held after the return.
C2_BuffersReleased ==
    /\ \A h \in Buffers :
           /\ released[h] <= 1
           /\ released[h] = 1 => h \in acquired /\ h \notin held
           /\ h \in held => h \in acquired
    /\ jpc = "returned" =>
           /\ held = {}
           /\ \A h \in acquired : released[h] = 1
\* operator7Resonance has returned the default for an empty embedding, with both
\* of its buffers obtained and released
C2_Witness ==
    /\ entry = "operator7Resonance" /\ jpc = "returned"
    /\ j_embedding = <<>> /\ j_centroid /= <<>> /\ score = Zero
    /\ acquired = {"flt_emb", "flt_cen"} /\ held = {}
    /\ released["flt_emb"] = 1 /\ released["flt_cen"] = 1

(***************************************************************************)
(* Properties of one call of an operator (specification Spec)              *)
(***************************************************************************)
Returned(o) == pc = "done" /\ op = o
AllZero(v) == \A i \in DOMAIN v : IsZero(v[i])

\* C3: calculate_resonance returns exactly 0.0 whenever its two vectors differ in
\* length or either is empty, and nothing else happens in that case.
C3_ResonanceDefault ==
    (Returned("calculate_resonance") /\ (Len(a) /= Len(b) \/ Len(a) = 0 \/ Len(b) = 0))
        => result = Zero
\* a call with two non-empty vectors of different lengths has returned 0.0
C3_Witness ==
    /\ Returned("calculate_resonance")
    /\ Len(a) = 1 /\ Len(b) = 2 /\ ~AllZero(a) /\ ~AllZero(b)
    /\ result = Zero

\* C4: resonance is symmetric: for all equal-length a and b the call on (a, b)
\* returns the same float as the call on (b, a).
C4_ResonanceSymmetric ==
    (Returned("calculate_resonance") /\ Len(a) = Len(b))
        => result = calculate_resonance(b, a)
\* a call on two different vectors of different norms has returned a non-zero value
C4_Witness ==
    /\ Returned("calculate_resonance")
    /\ a = <<One, P2(50)>> /\ b = <<FNeg(One), One>>
    /\ ~IsZero(result) /\ IsFin(result)

\* the sum of |v_1| .. |v_n| in float arithmetic, added left to right
RECURSIVE SumAbs(_, _)
SumAbs(v, n) == IF n = 0 THEN Zero ELSE FAdd(SumAbs(v, n - 1), FAbs(v[n]))
MeanAbs(v) == FDiv(SumAbs(v, Len(v)), FromInt(Len(v)))

\* C5: calculate_coherence(v) is min(1.0, (sum of |v_i|) / n) for a non-empty v
\* and exactly 0.0 for the empty v; so it lies in [0, 1] for every input and is
\* 1.0 whenever the mean absolute value is at least 1.
C5_CoherenceFormula ==
    Returned("calculate_coherence") =>
        /\ a = <<>> => result = Zero
        /\ a /= <<>> => result = FMin(One, MeanAbs(a))
        /\ FLe(Zero, result) /\ FLe(result, One)
        /\ (a /= <<>> /\ FLe(One, MeanAbs(a))) => result = One
\* coherence([2, 2, 2]) has returned 1.0
C5_Witness ==
    /\ Returned("calculate_coherence")
    /\ a = <<P2(1), P2(1), P2(1)>>
    /\ result = One

\* the sum of |h_i - h_(i-1)| for i = 2..n in float arithmetic, added left to right
RECURSIVE SumAbsDiff(_, _)
SumAbsDiff(h, n) ==
    IF n < 2 THEN Zero
    ELSE FAdd(SumAbsDiff(h, n - 1), FAbs(FSub(h[n], h[n - 1])))
MeanAbsDiff(h) == FDiv(SumAbsDiff(h, Len(h)), FromInt(Len(h) - 1))

\* C6: calculate_delta_i(h) is 1.0 when h has fewer than 2 elements and otherwise
\* 1.0 minus the sum of |h[i] - h[i-1]| divided by n - 1; [1.0, 0.0] gives
\* exactly 0.0.
C6_DeltaFormula ==
    Returned("calculate_delta_i") =>
        /\ Len(a) < 2 => result = One
        /\ Len(a) >= 2 => result = FSub(One, MeanAbsDiff(a))
        /\ a = <<One, Zero>> => result = Zero
\* delta_i([1.0, 0.0]) has returned 0.0
C6_Witness ==
    /\ Returned("calculate_delta_i")
    /\ a = <<One, Zero>>
    /\ result = Zero

\* a component that is zero or of magnitude within [2^-50, 2^50]: no product of
\* two such components and no sum of fewer than 2^20 such products leaves the
\* normal range of float
Moderate(x) == IsFin(x) /\ (IsZero(x) \/ (FLe(P2(-50), FAbs(x)) /\ FLe(FAbs(x), P2(50))))
AllModerate(v) == \A i \in DOMAIN v : Moderate(v[i])
\* 1 + (n + 3) * 2^-23, which for n <= 1024 is at least
\* (1 + 2^-24) / (1 - 2^-24)^(2n+4), the most the roundings of the n products
\* and sums, the two square roots, their product, the sum with 1e-9f and the
\* division can add to a quotient of magnitude at most 1
RoundingBound(n) == Fin(0, HalfP + n + 3, -(Precision - 1))

Constant(h) == \A i \in DOMAIN h : h[i] = h[1]
InUnitRange(h) == \A i \in DOMAIN h : FLe(FNeg(One), h[i]) /\ FLe(h[i], One)
AllFinite(h) == \A i \in DOMAIN h : IsFin(h[i])

\* C8 as stated: for every history of n >= 2 (real, so finite) values the result
\* is at most 1.0, is 1.0 exactly when the history is constant, and is not below
\* -1 when all values lie in [-1, 1].
C8_Original ==
    (Returned("calculate_delta_i") /\ Len(a) >= 2 /\ AllFinite(a)) =>
        /\ FLe(result, One)
        /\ FEq(result, One) <=> Constant(a)
        /\ InUnitRange(a) => FLe(FNeg(One), result)
\* C8 as amended: for every history of n >= 2 finite values the result is at
\* most 1.0; it is 1.0 when the history is constant, and more generally exactly
\* when the mean absolute difference is at most 2^-25 (then 1.0 - mean rounds
\* to 1.0); when all values lie in [-1, 1] the result is not below -1.
C8_DeltaRange ==
    (Returned("calculate_delta_i") /\ Len(a) >= 2 /\ AllFinite(a)) =>
        /\ FLe(result, One)
        /\ Constant(a) => result = One
        /\ FEq(result, One) <=> FLe(MeanAbsDiff(a), P2(-25))
        /\ InUnitRange(a) => FLe(FNeg(One), result)
\* a history within [-1, 1] has given a result below 0
C8_Witness ==
    /\ Returned("calculate_delta_i")
    /\ Len(a) >= 2 /\ InUnitRange(a)
    /\ FLt(result, Zero)

\* C10: as the comment in calculate_resonance states, the value returned for
\* equal-length non-empty vectors is between 0 and 1.
C10_ResonanceUnitInterval ==
    (Returned("calculate_resonance") /\ Len(a) = Len(b) /\ Len(a) > 0) =>
        FLe(Zero, result) /\ FLe(result, One)

====
